---- MODULE Spec2Model ----
(***************************************************************************)
(* PathFinder (src/main.py): a Streamlit application with a JSON-file      *)
(* account store, bcrypt login, a per-user analysis history and a          *)
(* keyword-based resume / job-description skill match.                     *)
(*                                                                         *)
(* Every script run of a browser session is one action.  Texts are kept    *)
(* as Python strings in the state and spelt out character by character    *)
(* (Chars) where the code looks inside them: lower(), the regular          *)
(* expression of extract_skills, " ".join and truthiness.                  *)
(*                                                                         *)
(* Units: match_percent is kept in hundredths of a percent (6667 stands    *)
(* for 66.67), so round(x, 2) is an integer rounding.                      *)
(***************************************************************************)
EXTENDS Integers, Sequences, FiniteSets, TLC

VARIABLES
    file,          \* content of users.json
    bak,           \* content of users.json.bak
    started,       \* started[s]: "users" in st.session_state of session s
    users,         \* users[s]: st.session_state.users
    logged_in,     \* logged_in[s]: st.session_state.logged_in
    current_user,  \* current_user[s]: st.session_state.current_user
    rerun,         \* rerun[s]: st.rerun() of Clear My History is pending
    last           \* the script run that ended last: inputs, messages, results

vars == <<file, bak, started, users, logged_in, current_user, rerun, last>>

(***************************************************************************)
(* Bounds of the model.                                                    *)
(***************************************************************************)
\* Longest history an analysis may still extend.
MaxHistory == 2

\* Browser sessions, numbered in order of arrival.
Sessions == {1, 2}

\* What a user may type into the username and password fields.
Usernames == {"", "alice", "bob"}
Passwords == {"pw", "x"}

\* Salts bcrypt.gensalt() may draw.
Salts == {1, 2}

\* Values of datetime.now().strftime(...) an analysis may read.
Timestamps == {"2026-01-01 10:00:00"}

\* The operating systems the application may run on.
Platforms == {"posix", "windows"}

\* Unparseable contents users.json may hold.
Garbage == {"{not json"}

(***************************************************************************)
(* Strings, spelt out.                                                     *)
(***************************************************************************)
\* The characters of every string whose inside the code reads.
Chars ==
   ("python" :> <<"p","y","t","h","o","n">>)
   @@ ("java" :> <<"j","a","v","a">>)
   @@ ("c++" :> <<"c","+","+">>)
   @@ ("sql" :> <<"s","q","l">>)
   @@ ("machine learning" :> <<"m","a","c","h","i","n","e"," ","l","e","a","r","n","i","n","g">>)
   @@ ("deep learning" :> <<"d","e","e","p"," ","l","e","a","r","n","i","n","g">>)
   @@ ("data analysis" :> <<"d","a","t","a"," ","a","n","a","l","y","s","i","s">>)
   @@ ("data visualization" :> <<"d","a","t","a"," ","v","i","s","u","a","l","i","z","a","t","i","o","n">>)
   @@ ("excel" :> <<"e","x","c","e","l">>)
   @@ ("tableau" :> <<"t","a","b","l","e","a","u">>)
   @@ ("power bi" :> <<"p","o","w","e","r"," ","b","i">>)
   @@ ("communication" :> <<"c","o","m","m","u","n","i","c","a","t","i","o","n">>)
   @@ ("teamwork" :> <<"t","e","a","m","w","o","r","k">>)
   @@ ("leadership" :> <<"l","e","a","d","e","r","s","h","i","p">>)
   @@ ("cloud" :> <<"c","l","o","u","d">>)
   @@ ("aws" :> <<"a","w","s">>)
   @@ ("azure" :> <<"a","z","u","r","e">>)
   @@ ("react" :> <<"r","e","a","c","t">>)
   @@ ("javascript" :> <<"j","a","v","a","s","c","r","i","p","t">>)
   @@ ("node" :> <<"n","o","d","e">>)
   @@ ("html" :> <<"h","t","m","l">>)
   @@ ("css" :> <<"c","s","s">>)
   @@ ("nlp" :> <<"n","l","p">>)
   @@ ("statistics" :> <<"s","t","a","t","i","s","t","i","c","s">>)
   @@ ("" :> <<>>)
   @@ ("  " :> <<" "," ">>)
   @@ ("5 years of ML experience" :> <<"5"," ","y","e","a","r","s"," ","o","f"," ","M","L"," ","e","x","p","e","r","i","e","n","c","e">>)
   @@ ("5 years of machine learning experience" :> <<"5"," ","y","e","a","r","s"," ","o","f"," ","m","a","c","h","i","n","e"," ","l","e","a","r","n","i","n","g"," ","e","x","p","e","r","i","e","n","c","e">>)
   @@ ("python and sql developer" :> <<"p","y","t","h","o","n"," ","a","n","d"," ","s","q","l"," ","d","e","v","e","l","o","p","e","r">>)
   @@ ("Python, SQL and AWS" :> <<"P","y","t","h","o","n",","," ","S","Q","L"," ","a","n","d"," ","A","W","S">>)
   @@ ("javascript developer" :> <<"j","a","v","a","s","c","r","i","p","t"," ","d","e","v","e","l","o","p","e","r">>)
   @@ ("python" :> <<"p","y","t","h","o","n">>)
   @@ ("sql aws" :> <<"s","q","l"," ","a","w","s">>)
   @@ ("c++11 and java" :> <<"c","+","+","1","1"," ","a","n","d"," ","j","a","v","a">>)
   @@ ("python, aws and java" :> <<"p","y","t","h","o","n",","," ","a","w","s"," ","a","n","d"," ","j","a","v","a">>)

UpperCase == <<"A","B","C","D","E","F","G","H","I","J","K","L","M",
               "N","O","P","Q","R","S","T","U","V","W","X","Y","Z">>
LowerCase == <<"a","b","c","d","e","f","g","h","i","j","k","l","m",
               "n","o","p","q","r","s","t","u","v","w","x","y","z">>
Digits == {"0","1","2","3","4","5","6","7","8","9"}

Range(f) == {f[i] : i \in DOMAIN f}

\* str.lower() of one character.
lower_char(c) ==
    IF \E k \in DOMAIN UpperCase : UpperCase[k] = c
    THEN LowerCase[CHOOSE k \in DOMAIN UpperCase : UpperCase[k] = c]
    ELSE c

\* str.lower()
lower(text) == [i \in 1..Len(text) |-> lower_char(text[i])]

\* \w of the re module: a letter, a digit or the underscore.
IsWordChar(c) == c \in Range(UpperCase) \cup Range(LowerCase) \cup Digits \cup {"_"}

\* Whether position p of text (1..Len+1, the gap before text[p]) is a \b: exactly
\* one of the characters on its two sides is a word character.
WordBoundary(text, p) ==
    LET before == p > 1 /\ IsWordChar(text[p - 1])
        after == p <= Len(text) /\ IsWordChar(text[p])
    IN before # after

\* re.match in place of re.search: the keyword is looked for at the start of the
\* text only.
re_match_word(s, text) ==
    /\ Len(s) <= Len(text)
    /\ SubSeq(text, 1, Len(s)) = s
    /\ WordBoundary(text, 1)
    /\ WordBoundary(text, 1 + Len(s))

\* re.search(r'\b' + re.escape(s) + r'\b', text): s occurs literally somewhere in
\* text with a word boundary on both sides.
re_search_word(s, text) ==
    \E i \in 1..(Len(text) - Len(s) + 1) :
        /\ SubSeq(text, i, i + Len(s) - 1) = s
        /\ WordBoundary(text, i)
        /\ WordBoundary(text, i + Len(s))

\* " ".join(parts)
RECURSIVE join(_)
join(parts) ==
    IF Len(parts) = 0 THEN <<>>
    ELSE IF Len(parts) = 1 THEN parts[1]
    ELSE parts[1] \o <<" ">> \o join(Tail(parts))

\* str.isspace() or empty: nothing but whitespace.
IsBlank(text) == \A i \in 1..Len(text) : text[i] \in {" ", "\t", "\n"}

(***************************************************************************)
(* The skill match.                                                        *)
(***************************************************************************)
skill_keywords == <<
    "python", "java", "c++", "sql", "machine learning", "deep learning",
    "data analysis", "data visualization", "excel", "tableau", "power bi",
    "communication", "teamwork", "leadership", "cloud", "aws", "azure",
    "react", "javascript", "node", "html", "css", "nlp", "statistics">>

\* extract_skills: the set of the keywords found as whole words in the lowercased
\* text (the code returns them as a list in hash order, which nothing reads).
extract_skills(text) ==
    {s \in Range(skill_keywords) : re_search_word(Chars[s], lower(text))}

\* matched_skills = list(set(resume_skills) & set(job_skills))
matched_skills_of(resume_skills, job_skills) == resume_skills \cap job_skills

\* The difference taken the wrong way round.
missing_skills_swapped(resume_skills, job_skills) == resume_skills \ job_skills

\* missing_skills = list(set(job_skills) - set(resume_skills))
missing_skills_of(resume_skills, job_skills) == job_skills \ resume_skills

\* The ratio rounded without the factor 100.
match_ratio_of(matched, job) ==
    IF job = 0 THEN 0 ELSE (200 * matched + job) \div (2 * job)

\* round(matched / job * 100, 2) if job_skills else 0, in hundredths of a percent.
\* With at most 24 keywords no quotient lies halfway between two hundredths, so
\* rounding to the nearest hundredth is all round() does.
match_percent_of(matched, job) ==
    IF job = 0 THEN 0 ELSE (20000 * matched + job) \div (2 * job)

(***************************************************************************)
(* Uploaded files and text extraction.                                     *)
(***************************************************************************)
\* st.file_uploader returned None.
NoFile == [name |-> "", type |-> "", readable |-> FALSE, parts |-> <<>>]

Part(text) == [has_text |-> TRUE, text |-> text]
\* A page of which page.extract_text() returns None (a scanned page).
ScannedPage == [has_text |-> FALSE, text |-> ""]

CorruptPdf ==
    [name |-> "broken.pdf", type |-> "application/pdf", readable |-> FALSE,
     parts |-> <<>>]
CorruptDocx ==
    [name |-> "broken.docx",
     type |-> "application/vnd.openxmlformats-officedocument.wordprocessingml.document",
     readable |-> FALSE, parts |-> <<>>]
Pdf(name, pages) ==
    [name |-> name, type |-> "application/pdf", readable |-> TRUE, parts |-> pages]
Docx(name, paragraphs) ==
    [name |-> name,
     type |-> "application/vnd.openxmlformats-officedocument.wordprocessingml.document",
     readable |-> TRUE, parts |-> paragraphs]

PythonSqlPdf == Pdf("cv.pdf", <<Part("python and sql developer")>>)

\* The uploads and job descriptions the skill match is applied to.
UploadedFiles ==
    {NoFile, CorruptPdf, CorruptDocx, PythonSqlPdf,
     Pdf("scan.pdf", <<Part("python"), ScannedPage, Part("sql aws")>>),
     Docx("ml.docx", <<Part("5 years of ML experience")>>),
     Docx("ml2.docx", <<Part("5 years of machine learning experience")>>),
     Docx("js.docx", <<Part("javascript developer")>>)}
JobDescriptions ==
    {"", "  ", "5 years of ML experience", "5 years of machine learning experience",
     "python and sql developer", "Python, SQL and AWS", "javascript developer",
     "c++11 and java", "python, aws and java"}

\* The uploads and job descriptions a session may hold in its widgets.
SessionFiles == {NoFile, CorruptPdf, PythonSqlPdf}
SessionJobDescriptions == {"", "  ", "Python, SQL and AWS"}

\* extract_text_from_pdf: pdfplumber.open raises on a file it cannot read; the
\* pages' texts ("" for a page without text) joined by a space.
extract_text_from_pdf(f) ==
    IF ~f.readable THEN [raised |-> TRUE, text |-> <<>>]
    ELSE [raised |-> FALSE,
          text |-> join([i \in 1..Len(f.parts) |->
                           IF f.parts[i].has_text THEN Chars[f.parts[i].text]
                           ELSE <<>>])]

\* extract_text_from_docx: docx.Document raises on a file it cannot read; the
\* paragraphs' texts joined by a space.
extract_text_from_docx(f) ==
    IF ~f.readable THEN [raised |-> TRUE, text |-> <<>>]
    ELSE [raised |-> FALSE,
          text |-> join([i \in 1..Len(f.parts) |-> Chars[f.parts[i].text]])]

\* suggest_courses: str.contains(skill, case=False) compiles the skill as a regular
\* expression, and re.compile("c++") raises "multiple repeat".
suggest_courses_raises(missing_skills) == "c++" \in missing_skills

\* What a script run of the main page holds when it has not analysed anything.
NoResult ==
    [attempted |-> FALSE, raised |-> FALSE, resume_text |-> <<>>,
     resume_skills |-> {}, job_skills |-> {}, matched_skills |-> {},
     missing_skills |-> {}, match_percent |-> 0]

\* if uploaded_file and job_description: both are truthy.
InputGuard(uploaded_file, job_description) ==
    uploaded_file # NoFile /\ Len(Chars[job_description]) > 0

\* The body of "if uploaded_file and job_description:" up to the history entry:
\* the values it computes, and whether an exception ended it before the entry.
analysis(uploaded_file, job_description) ==
    IF ~InputGuard(uploaded_file, job_description) THEN NoResult
    ELSE
        LET extracted == IF uploaded_file.type = "application/pdf"
                         THEN extract_text_from_pdf(uploaded_file)
                         ELSE extract_text_from_docx(uploaded_file)
        IN  IF extracted.raised
            THEN [NoResult EXCEPT !.attempted = TRUE, !.raised = TRUE]
            ELSE
                LET resume_skills == extract_skills(extracted.text)
                    job_skills == extract_skills(Chars[job_description])
                    matched == matched_skills_of(resume_skills, job_skills)
                    missing == missing_skills_of(resume_skills, job_skills)
                IN  [attempted |-> TRUE,
                     raised |-> suggest_courses_raises(missing),
                     resume_text |-> extracted.text,
                     resume_skills |-> resume_skills,
                     job_skills |-> job_skills,
                     matched_skills |-> matched,
                     missing_skills |-> missing,
                     match_percent |->
                         match_percent_of(Cardinality(matched), Cardinality(job_skills))]

\* analysis, tabulated once over the inputs of the model.
AnalysisTable ==
    [f \in UploadedFiles, j \in JobDescriptions |-> analysis(f, j)]
    @@ [x \in {} |-> NoResult]

\* The history entry of a finished analysis.
history_entry(timestamp, r) ==
    [timestamp |-> timestamp, match |-> r.match_percent, resume |-> r.resume_skills,
     job |-> r.job_skills, missing |-> r.missing_skills]

(***************************************************************************)
(* The account store.                                                      *)
(***************************************************************************)
\* st.session_state.current_user = None
NoUser == "<None>"

\* {}
EmptyTable == [u \in {} |-> NoUser]

\* Contents of a file of the working directory: none, a JSON document or bytes
\* json.load cannot parse.
Absent == [tag |-> "absent", data |-> EmptyTable, raw |-> ""]
UnparseableFile(g) == [tag |-> "garbage", data |-> EmptyTable, raw |-> g]

\* json.dump(data, f, indent=2) into a freshly truncated users.json.
json_dump(data) == [tag |-> "json", data |-> data, raw |-> ""]

\* os.rename(src, dst): on Windows it raises FileExistsError when dst exists; on
\* POSIX it replaces dst.
os_rename(os, src, dst) ==
    IF os = "windows" /\ dst.tag # "absent"
    THEN [raised |-> TRUE, src |-> src, dst |-> dst]
    ELSE [raised |-> FALSE, src |-> Absent, dst |-> src]

\* load_users_file: the table, the two files afterwards, and whether the rename
\* in the except block raised.
load_users_file(os, f, b) ==
    IF f.tag = "absent"
    THEN [raised |-> FALSE, users |-> EmptyTable, file |-> f, bak |-> b]
    ELSE IF f.tag = "json"
    THEN [raised |-> FALSE, users |-> f.data, file |-> f, bak |-> b]
    ELSE LET r == os_rename(os, f, b)
         IN  [raised |-> r.raised, users |-> EmptyTable, file |-> r.src, bak |-> r.dst]

\* bcrypt's digest of a password under a salt: a number that differs for the
\* different passwords and salts of the model.
PasswordCode == ("pw" :> 1) @@ ("x" :> 2)
bcrypt_digest(salt, password) == (31 * salt + 7 * PasswordCode[password]) % 97

\* hash_password, with the salt bcrypt.gensalt() drew.
hash_password(password, salt) ==
    [salt |-> salt, digest |-> bcrypt_digest(salt, password)]

\* verify_password
verify_password(password, hashed) ==
    bcrypt_digest(hashed.salt, password) = hashed.digest

ProfileUrl == "https://cdn-icons-png.flaticon.com/512/3177/3177440.png"

\* current_user set before the password is verified.
login_sets_user_first(table, was_logged_in, was_user, username, password) ==
    IF username \in DOMAIN table
    THEN IF verify_password(password, table[username].password)
         THEN [logged_in |-> TRUE, current_user |-> username,
               msg |-> "Login successful!"]
         ELSE [logged_in |-> was_logged_in, current_user |-> username,
               msg |-> "Incorrect password!"]
    ELSE [logged_in |-> was_logged_in, current_user |-> was_user,
          msg |-> "User not found!"]

\* The Login button: the session's login state afterwards and the message shown.
login(table, was_logged_in, was_user, username, password) ==
    IF username \in DOMAIN table
    THEN IF verify_password(password, table[username].password)
         THEN [logged_in |-> TRUE, current_user |-> username,
               msg |-> "Login successful!"]
         ELSE [logged_in |-> was_logged_in, current_user |-> was_user,
               msg |-> "Incorrect password!"]
    ELSE [logged_in |-> was_logged_in, current_user |-> was_user,
          msg |-> "User not found!"]

\* Without the "elif new_user in st.session_state.users" branch.
register_overwrites(table, new_user, hashed_password) ==
    IF new_user = ""
    THEN [users |-> table, saved |-> FALSE, msg |-> "Please enter a username"]
    ELSE [users |-> [u \in DOMAIN table \cup {new_user} |->
                        IF u = new_user
                        THEN [password |-> hashed_password, history |-> <<>>,
                              profile_url |-> ProfileUrl]
                        ELSE table[u]],
          saved |-> TRUE,
          msg |-> "Account created! You can now login."]

\* The Register button: the table afterwards, whether save_users_file ran, and
\* the message shown.
register(table, new_user, hashed_password) ==
    IF new_user = ""
    THEN [users |-> table, saved |-> FALSE, msg |-> "Please enter a username"]
    ELSE IF new_user \in DOMAIN table
    THEN [users |-> table, saved |-> FALSE, msg |-> "Username already exists!"]
    ELSE [users |-> table @@ (new_user :> [password |-> hashed_password,
                                           history |-> <<>>,
                                           profile_url |-> ProfileUrl]),
          saved |-> TRUE,
          msg |-> "Account created! You can now login."]

\* st.session_state.users[curr_user]["history"] = []
clear_history(table, curr_user) == [table EXCEPT ![curr_user].history = <<>>]

\* insert(0, entry) in place of append(entry).
prepend_history(table, curr_user, entry) ==
    [table EXCEPT ![curr_user].history = <<entry>> \o @]

\* st.session_state.users[curr_user]["history"].append(entry)
append_history(table, curr_user, entry) ==
    [table EXCEPT ![curr_user].history = Append(@, entry)]

\* A handler that forgets save_users_file.
save_forgotten(saved, table, f) == f

\* save_users_file(st.session_state.users) where the handler calls it.
save_after(saved, table, f) == IF saved THEN json_dump(table) ELSE f

(***************************************************************************)
(* Script runs.                                                            *)
(***************************************************************************)
Ran(s, op, msg, exc, uploaded_file, job_description, result) ==
    [s |-> s, op |-> op, msg |-> msg, exc |-> exc, uploaded_file |-> uploaded_file,
     job_description |-> job_description, result |-> result]

Quiet(s, op, msg) == Ran(s, op, msg, FALSE, NoFile, "", NoResult)

\* A table users.json may hold when the first session arrives: an account an
\* earlier run of the application registered.
EarlierTable ==
    "bob" :> [password |-> hash_password("pw", 1), history |-> <<>>,
              profile_url |-> ProfileUrl]

Init ==
    /\ file \in {Absent, json_dump(EarlierTable)}
                \cup {UnparseableFile(g) : g \in Garbage}
    /\ bak \in {Absent, UnparseableFile("older")}
    /\ started = [s \in Sessions |-> FALSE]
    /\ users = [s \in Sessions |-> EmptyTable]
    /\ logged_in = [s \in Sessions |-> FALSE]
    /\ current_user = [s \in Sessions |-> NoUser]
    /\ rerun = [s \in Sessions |-> FALSE]
    /\ last = Quiet(0, "none", "")

\* The first script run of a session: "users" is not in st.session_state, so
\* the store is loaded and the login state initialised; the login page is shown.
\* When the load raises, the run ends there and the session state stays unset.
Start(s) ==
    /\ ~started[s]
    /\ (IF s = 1 THEN TRUE ELSE started[s - 1])
    /\ \E os \in Platforms :
       LET r == load_users_file(os, file, bak)
       IN  IF r.raised
           THEN /\ last' = Ran(s, "load", "FileExistsError", TRUE, NoFile, "", NoResult)
                /\ UNCHANGED <<file, bak, started, users, logged_in, current_user>>
           ELSE /\ started' = [started EXCEPT ![s] = TRUE]
                /\ users' = [users EXCEPT ![s] = r.users]
                /\ file' = r.file
                /\ bak' = r.bak
                /\ logged_in' = [logged_in EXCEPT ![s] = FALSE]
                /\ current_user' = [current_user EXCEPT ![s] = NoUser]
                /\ last' = Quiet(s, "load", "")
    /\ UNCHANGED <<rerun>>

\* The login page is what a session shows while it is not logged in.
OnLoginPage(s) == started[s] /\ ~logged_in[s] /\ ~rerun[s]
OnMainPage(s) == started[s] /\ logged_in[s] /\ ~rerun[s]

\* The Login button. After a successful login st.rerun() runs the script again:
\* the main page with its widgets still unset, which changes nothing.
Login(s, username, password) ==
    /\ OnLoginPage(s)
    /\ LET r == login(users[s], logged_in[s], current_user[s], username, password)
       IN  /\ logged_in' = [logged_in EXCEPT ![s] = r.logged_in]
           /\ current_user' = [current_user EXCEPT ![s] = r.current_user]
           /\ last' = Quiet(s, "login", r.msg)
    /\ UNCHANGED <<file, bak, started, users, rerun>>

\* The Register button.
Register(s, new_user, new_pass, salt) ==
    /\ OnLoginPage(s)
    /\ LET r == register(users[s], new_user, hash_password(new_pass, salt))
       IN  /\ users' = [users EXCEPT ![s] = r.users]
           /\ file' = save_after(r.saved, r.users, file)
           /\ last' = Quiet(s, "register", r.msg)
    /\ UNCHANGED <<bak, started, logged_in, current_user, rerun>>

\* The Clear My History button of the sidebar; its st.rerun() ends the run before
\* the main page and is pending afterwards.
ClearHistory(s) ==
    /\ OnMainPage(s)
    /\ LET table == clear_history(users[s], current_user[s])
       IN  /\ users' = [users EXCEPT ![s] = table]
           /\ file' = save_after(TRUE, table, file)
    /\ rerun' = [rerun EXCEPT ![s] = TRUE]
    /\ last' = Quiet(s, "clear", "History cleared.")
    /\ UNCHANGED <<bak, started, logged_in, current_user>>

\* The Logout button. Its st.rerun() shows the login page, which changes nothing.
Logout(s) ==
    /\ OnMainPage(s)
    /\ logged_in' = [logged_in EXCEPT ![s] = FALSE]
    /\ current_user' = [current_user EXCEPT ![s] = NoUser]
    /\ last' = Quiet(s, "logout", "")
    /\ UNCHANGED <<file, bak, started, users, rerun>>

\* The main page of a run in which no sidebar button was pressed, with the
\* widgets holding uploaded_file and job_description: the analysis, its history
\* entry and the save, unless the guard fails or an exception ends the run first.
MainPage(s, uploaded_file, job_description, timestamp) ==
    LET r == AnalysisTable[uploaded_file, job_description]
        done == r.attempted /\ ~r.raised
        table == IF done
                 THEN append_history(users[s], current_user[s],
                                     history_entry(timestamp, r))
                 ELSE users[s]
    IN  /\ done => Len(users[s][current_user[s]].history) < MaxHistory
        /\ users' = [users EXCEPT ![s] = table]
        /\ file' = save_after(done, table, file)
        /\ last' = Ran(s, "analyze", "", r.raised, uploaded_file, job_description, r)

\* A script run of the main page caused by a widget: an upload, a new job
\* description, the download button.
Analyze(s, uploaded_file, job_description, timestamp) ==
    /\ OnMainPage(s)
    /\ MainPage(s, uploaded_file, job_description, timestamp)
    /\ UNCHANGED <<bak, started, logged_in, current_user, rerun>>

\* The run st.rerun() of Clear My History starts: the main page again, with the
\* values the widgets held.
Rerun(s, uploaded_file, job_description, timestamp) ==
    /\ started[s] /\ logged_in[s] /\ rerun[s]
    /\ MainPage(s, uploaded_file, job_description, timestamp)
    /\ rerun' = [rerun EXCEPT ![s] = FALSE]
    /\ UNCHANGED <<bak, started, logged_in, current_user>>

\* The inputs a specification lets the users of a session choose from.
Inputs(usernames, passwords, salts, files, job_descriptions, timestamps) ==
    [usernames |-> usernames, passwords |-> passwords, salts |-> salts,
     files |-> files, job_descriptions |-> job_descriptions,
     timestamps |-> timestamps]

\* One script run of session s.
SessionStep(s, in) ==
    \/ Start(s)
    \/ \E u \in in.usernames, p \in in.passwords : Login(s, u, p)
    \/ \E u \in in.usernames, p \in in.passwords, salt \in in.salts :
           Register(s, u, p, salt)
    \/ ClearHistory(s)
    \/ Logout(s)
    \/ \E f \in in.files, j \in in.job_descriptions, t \in in.timestamps :
           Analyze(s, f, j, t)
    \/ \E f \in in.files, j \in in.job_descriptions, t \in in.timestamps :
           Rerun(s, f, j, t)

\* One browser session.
Next ==
    SessionStep(1, Inputs(Usernames, Passwords, Salts, SessionFiles,
                          SessionJobDescriptions, Timestamps))

Spec == Init /\ [][Next]_vars

\* Two browser sessions side by side, each with its own st.session_state, over
\* the one users.json.
NextTwoSessions ==
    \E s \in Sessions :
        SessionStep(s, Inputs(Usernames, {"pw"}, {1}, {PythonSqlPdf},
                              {"Python, SQL and AWS"}, Timestamps))

\* They arrive at a store with no backup beside it.
InitTwoSessions == Init /\ bak = Absent

SpecTwoSessions == InitTwoSessions /\ [][NextTwoSessions]_vars

\* The skill match alone, applied once to an upload and a job description.
InitMatch ==
    /\ file = Absent
    /\ bak = Absent
    /\ started = [s \in Sessions |-> FALSE]
    /\ users = [s \in Sessions |-> EmptyTable]
    /\ logged_in = [s \in Sessions |-> FALSE]
    /\ current_user = [s \in Sessions |-> NoUser]
    /\ rerun = [s \in Sessions |-> FALSE]
    /\ \E f \in UploadedFiles, j \in JobDescriptions :
           last = Ran(0, "input", "", FALSE, f, j, NoResult)

Match ==
    /\ last.op = "input"
    /\ LET r == analysis(last.uploaded_file, last.job_description)
       IN  last' = Ran(0, "match", "", r.raised, last.uploaded_file,
                       last.job_description, r)
    /\ UNCHANGED <<file, bak, started, users, logged_in, current_user, rerun>>

SpecMatch == InitMatch /\ [][Match]_vars

(***************************************************************************)
(* Properties.                                                             *)
(***************************************************************************)
\* The accounts users.json holds; a missing or unparseable file holds none.
Accounts(f) == IF f.tag = "json" THEN f.data ELSE EmptyTable

IsPrefix(h, g) == Len(h) <= Len(g) /\ SubSeq(g, 1, Len(h)) = h

\* An analysis that reached its history entry.
Completed(r) == r.attempted /\ ~r.raised

AuthFailures ==
    {"User not found!", "Incorrect password!", "Please enter a username",
     "Username already exists!"}

\* C1: a script run that ends in one of the four authentication failure
\* messages (unknown user, wrong password, empty or taken username) leaves the
\* session's user table, users.json, logged_in and current_user as they were.
C1_FailedAuthMutatesNothing ==
    [][last'.msg \in AuthFailures
          => UNCHANGED <<users, file, bak, logged_in, current_user>>]_vars

\* A login with a wrong password was refused in a session that knows accounts.
C1_Witness ==
    /\ last.op = "login" /\ last.msg = "Incorrect password!"
    /\ DOMAIN users[last.s] # {}
    /\ ~logged_in[last.s]

\* C2: a load that finds users.json unparseable ends without an exception, with
\* an empty table and the file's content under users.json.bak; a load that finds
\* no file ends with an empty table.
C2_CorruptStoreQuarantined ==
    [][last'.op = "load"
          => /\ file.tag = "garbage"
                 => /\ ~last'.exc
                    /\ started'[last'.s]
                    /\ users'[last'.s] = EmptyTable
                    /\ bak' = file
                    /\ file' = Absent
             /\ file.tag = "absent"
                 => /\ ~last'.exc
                    /\ started'[last'.s]
                    /\ users'[last'.s] = EmptyTable]_vars

\* A required input is missing: no upload, or a job description that is empty
\* or nothing but whitespace.
MissingInput(uploaded_file, job_description) ==
    uploaded_file = NoFile \/ IsBlank(Chars[job_description])

\* C3: a run of the main page with a required input missing attempts no
\* analysis and changes neither a user table nor users.json.
C3_MissingInputNoComputation ==
    [][(last'.op = "analyze"
          /\ MissingInput(last'.uploaded_file, last'.job_description))
          => /\ ~last'.result.attempted
             /\ last'.result.resume_skills = {}
             /\ UNCHANGED <<users, file>>]_vars

\* C4 as stated: no step removes an account from users.json or changes its
\* password hash, and a history in it gets shorter only by Clear My History.
C4_AccountNeverDeleted ==
    [][\A u \in DOMAIN Accounts(file) :
          /\ u \in DOMAIN Accounts(file')
          /\ Accounts(file')[u].password = Accounts(file)[u].password
          /\ \/ IsPrefix(Accounts(file)[u].history, Accounts(file')[u].history)
             \/ last'.op = "clear"]_vars

\* C4 as amended: an account never leaves a session's own table nor changes its
\* password hash there, and its history there is cut only by that session's
\* Clear My History of its logged-in user. users.json changes only by a load
\* moving an unparseable file aside or by a session saving its whole table, and
\* an account of users.json is lost, or its hash changed, only by a save of a
\* session whose table did not hold the account with that hash.
C4_AccountKeptInSession ==
    [][/\ \A s \in Sessions : \A u \in DOMAIN users[s] :
            /\ u \in DOMAIN users'[s]
            /\ users'[s][u].password = users[s][u].password
            /\ users'[s][u].profile_url = users[s][u].profile_url
            /\ \/ IsPrefix(users[s][u].history, users'[s][u].history)
               \/ /\ last'.op = "clear" /\ last'.s = s /\ current_user[s] = u
                  /\ users'[s][u].history = <<>>
       /\ file' # file
            => \/ last'.op = "load" /\ file.tag = "garbage" /\ file' = Absent
               \/ file' = json_dump(users'[last'.s])
       /\ \A u \in DOMAIN Accounts(file) :
            \/ /\ u \in DOMAIN Accounts(file')
               /\ Accounts(file')[u].password = Accounts(file)[u].password
            \/ /\ file' = json_dump(users'[last'.s])
               /\ \/ u \notin DOMAIN users[last'.s]
                  \/ users[last'.s][u].password # Accounts(file)[u].password]_vars

\* Two sessions hold both accounts, users.json holds both, and the second
\* session has just registered one of them.
C4_Witness ==
    /\ last.op = "register" /\ last.s = 2
    /\ last.msg = "Account created! You can now login."
    /\ DOMAIN users[1] = {"alice", "bob"}
    /\ DOMAIN users[2] = {"alice", "bob"}
    /\ DOMAIN Accounts(file) = {"alice", "bob"}

\* C5: a completed analysis appends exactly its one entry at the end of the
\* logged-in user's history and changes nothing else of the session's table;
\* Clear My History empties the history of the logged-in user and changes
\* nothing else; no other step takes an entry away from any history.
C5_HistoryAppendOnly ==
    [][/\ (last'.op = "analyze" /\ Completed(last'.result))
            => \E t \in Timestamps :
                  users'[last'.s] =
                      [users[last'.s] EXCEPT ![current_user[last'.s]].history =
                          Append(@, history_entry(t, last'.result))]
       /\ last'.op = "clear"
            => users'[last'.s] =
                   [users[last'.s] EXCEPT ![current_user[last'.s]].history = <<>>]
       /\ \A s \in Sessions : \A u \in DOMAIN users[s] :
            \/ /\ u \in DOMAIN users'[s]
               /\ IsPrefix(users[s][u].history, users'[s][u].history)
               /\ Len(users'[s][u].history) <= Len(users[s][u].history) + 1
            \/ last'.op = "clear" /\ last'.s = s /\ current_user[s] = u]_vars

\* An analysis has just added a second, different entry to the history of a
\* user who shares the table with another account.
C5_Witness ==
    /\ last.op = "analyze" /\ Completed(last.result)
    /\ Cardinality(DOMAIN users[last.s]) = 2
    /\ LET h == users[last.s][current_user[last.s]].history
       IN  Len(h) = 2 /\ h[1] # h[2]

ResultFields ==
    {"attempted", "raised", "resume_text", "resume_skills", "job_skills",
     "matched_skills", "missing_skills", "match_percent"}

SameText == last.result.resume_text = Chars[last.job_description]

C9_ExtractionNeverRaises ==
    (last.op = "analyze"
       /\ InputGuard(last.uploaded_file, last.job_description)
       /\ ~last.uploaded_file.readable)
        => /\ ~last.exc
           /\ Completed(last.result)
           /\ last.result.resume_skills = {}

\* C10: in a single session, after every script run users.json holds the
\* session's table (no file standing for the empty table); a run that changes
\* the table leaves the file equal to the saved table, and only a run that
\* changes the table, or the load moving a bad file aside, changes the file.
C10_FileMirrorsTable ==
    [][/\ started'[1]
            => /\ file'.tag # "garbage"
               /\ Accounts(file') = users'[1]
       /\ users'[1] # users[1] => file' = json_dump(users'[1])
       /\ file' # file
            => \/ users'[1] # users[1]
               \/ last'.op = "load" /\ file.tag = "garbage" /\ file' = Absent]_vars

\* After a register, a login and an analysis the file holds the table with the
\* new entry.
C10_Witness ==
    /\ last.op = "analyze" /\ Completed(last.result)
    /\ started[1]
    /\ users[1][current_user[1]].history # <<>>
    /\ file = json_dump(users[1])
====
